---- MODULE Spec2Model ----
(***************************************************************************)
(* Model of test-refresh.py: a one-shot probe that loads the saved login   *)
(* response /tmp/response.json, extracts data.tokens.refreshToken, prints  *)
(* a 50-character preview, POSTs the token with curl to the refresh        *)
(* endpoint and prints what curl wrote on its standard output.             *)
(*                                                                         *)
(* Text is a sequence of one-character strings.  Two characters stand for  *)
(* classes the runtime treats specially: "U+00E9" is a non-ASCII code      *)
(* point and "U+D800" a lone surrogate (which a JSON \ud800 escape yields  *)
(* and which the UTF-8 console encoder rejects).  "0xFF" is a byte of a    *)
(* response body that is not valid in the locale's encoding.               *)
(***************************************************************************)
EXTENDS Integers, Sequences, FiniteSets, TLC

VARIABLES
    file,            \* environment: the state and content of /tmp/response.json
    curl_installed,  \* environment: whether the curl executable can be launched
    pc,              \* the statement the script is about to execute
    handle,          \* the file object f: "none", "open" or "closed"
    data,            \* the value json.load returned
    refresh_token,   \* the value bound at line 8
    stdout,          \* the text of each completed print call, in order
    opens,           \* every open() performed: path and mode
    calls,           \* every HTTP request curl was launched to make
    log,             \* the order of the side effects: "open", "print", "call"
    outcome,         \* environment: how the curl process ended
    result,          \* the CompletedProcess bound at line 12
    error,           \* the unhandled exception's type, "none" while there is none
    failed_at,       \* the statement that raised it
    exit_status      \* <<>> while running, <<status>> once the process has exited

vars == <<file, curl_installed, pc, handle, data, refresh_token, stdout, opens,
          calls, log, outcome, result, error, failed_at, exit_status>>

\* ------------------------------------------------------------------ bounds

\* Every token of at most this many characters is tried.
MaxShortLen == 2
\* Long tokens run from one character under the preview length to this many over.
MaxOver == 2

\* ------------------------------------------------------------- characters

DQ == "\""
BS == "\\"
LF == "\n"
CR == "\r"
NonAscii == "U+00E9"
Surrogate == "U+D800"
BadByte == "0xFF"

Alphabet == {"a", DQ, BS, LF, NonAscii, Surrogate}

Min(a, b) == IF a <= b THEN a ELSE b

\* ---------------------------------------------------------- program text

PATH == "/tmp/response.json"
URL == "http://localhost:3001/api/auth/refresh"
CONTENT_TYPE == "Content-Type: application/json"
PreviewLen == 50
PREFIX == <<"R", "e", "f", "r", "e", "s", "h", " ", "t", "o", "k", "e", "n", ":", " ">>
ELLIPSIS == <<".", ".", ".">>
HEADER == <<LF, "R", "e", "f", "r", "e", "s", "h", " ",
            "r", "e", "s", "p", "o", "n", "s", "e", ":">>

\* ---------------------------------------------------------- Python values

Null == [kind |-> "null", chars |-> <<>>, keys |-> <<>>, vals |-> <<>>]
Num == [kind |-> "num", chars |-> <<>>, keys |-> <<>>, vals |-> <<>>]
Str(s) == [kind |-> "str", chars |-> s, keys |-> <<>>, vals |-> <<>>]
Obj(ks, vs) == [kind |-> "obj", chars |-> <<>>, keys |-> ks, vals |-> vs]

HasKey(v, k) == v.kind = "obj" /\ \E i \in 1..Len(v.keys) : v.keys[i] = k

\* (variant: dict.get semantics, a missing key or a non-dict gives None)
GetItemDefault(v, k) ==
    IF HasKey(v, k)
    THEN [err |-> "none", val |-> v.vals[CHOOSE i \in 1..Len(v.keys) : v.keys[i] = k]]
    ELSE [err |-> "none", val |-> Null]
\* v[k]: a dict gives the value or KeyError; nothing else takes a str key.
GetItem(v, k) ==
    IF v.kind = "obj"
    THEN IF HasKey(v, k)
         THEN [err |-> "none", val |-> v.vals[CHOOSE i \in 1..Len(v.keys) : v.keys[i] = k]]
         ELSE [err |-> "KeyError", val |-> Null]
    ELSE [err |-> "TypeError", val |-> Null]

\* data['data']['tokens']['refreshToken'], left to right; the first error wins.
LookupToken(d) ==
    LET a == GetItem(d, "data")
        b == IF a.err = "none" THEN GetItem(a.val, "tokens") ELSE a
        c == IF b.err = "none" THEN GetItem(b.val, "refreshToken") ELSE b
    IN  c

\* (variant: the slice stops one character early)
SliceOffByOne(s, n) == SubSeq(s, 1, Min(n - 1, Len(s)))
\* s[:n] on a str clamps to the length; None and numbers cannot be sliced.
Slice(s, n) == SubSeq(s, 1, Min(n, Len(s)))

\* f"Refresh token: {refresh_token[:50]}..."
PreviewText(t) == PREFIX \o Slice(t, PreviewLen) \o ELLIPSIS

\* sys.stdout is UTF-8: every code point but a lone surrogate can be written.
CanEncode(text) == \A i \in 1..Len(text) : text[i] # Surrogate

\* ------------------------------------------------------------- json.dumps

\* The text json.dumps writes for one character of a str (ensure_ascii=True).
EscapeChar(c) ==
    CASE c = DQ -> <<BS, DQ>>
      [] c = BS -> <<BS, BS>>
      [] c = LF -> <<BS, "n">>
      [] c = NonAscii -> <<BS, "u", "0", "0", "e", "9">>
      [] c = Surrogate -> <<BS, "u", "d", "8", "0", "0">>
      [] OTHER -> <<c>>

\* The escapes of the characters of s, joined in order (by halves, which
\* keeps the evaluation shallow).
RECURSIVE EscapeAll(_)
EscapeAll(s) ==
    IF Len(s) = 0 THEN <<>>
    ELSE IF Len(s) = 1 THEN EscapeChar(s[1])
    ELSE EscapeAll(SubSeq(s, 1, Len(s) \div 2))
         \o EscapeAll(SubSeq(s, Len(s) \div 2 + 1, Len(s)))

\* (variant: the characters are written without escaping)
JsonStringUnescaped(s) == <<DQ>> \o s \o <<DQ>>
JsonString(s) == <<DQ>> \o EscapeAll(s) \o <<DQ>>

\* The spelling of the one key the script writes.
KeyChars(k) ==
    CASE k = "refreshToken" -> <<"r", "e", "f", "r", "e", "s", "h", "T", "o", "k", "e", "n">>
      [] OTHER -> <<"k">>

DumpsValue(v) ==
    CASE v.kind = "str" -> JsonString(v.chars)
      [] v.kind = "num" -> <<"7">>
      [] OTHER -> <<"n", "u", "l", "l">>

RECURSIVE DumpsMembers(_, _)
DumpsMembers(o, i) ==
    IF i > Len(o.keys) THEN <<>>
    ELSE (IF i > 1 THEN <<",", " ">> ELSE <<>>)
         \o JsonString(KeyChars(o.keys[i])) \o <<":", " ">> \o DumpsValue(o.vals[i])
         \o DumpsMembers(o, i + 1)

\* json.dumps of a dict of scalars, with the default separators ", " and ": ".
Dumps(o) == <<"{">> \o DumpsMembers(o, 1) \o <<"}">>

\* ------------------------------------------------- subprocess, text=True

\* The captured bytes decode unless one of them is invalid in the encoding.
CanDecode(bytes) == \A i \in 1..Len(bytes) : bytes[i] # BadByte

\* Text mode reads with universal newlines: "\r\n" and "\r" become "\n".
RECURSIVE UniversalNewlines(_)
UniversalNewlines(s) ==
    IF s = <<>> THEN <<>>
    ELSE IF Head(s) = CR
         THEN IF Len(s) >= 2 /\ s[2] = LF
              THEN <<LF>> \o UniversalNewlines(Tail(Tail(s)))
              ELSE <<LF>> \o UniversalNewlines(Tail(s))
         ELSE <<Head(s)>> \o UniversalNewlines(Tail(s))

NoResult == [returned |-> FALSE, returncode |-> 0, stdout |-> <<>>]

\* ------------------------------------------------------------ environment

LongLens == (PreviewLen - 1)..(PreviewLen + MaxOver)
Marks == {1, PreviewLen, PreviewLen + 1}

\* n characters "b" with the character c at position p.
LongToken(n, c, p) == [i \in 1..n |-> IF i = p THEN c ELSE "b"]

Tokens ==
    UNION {[1..n -> Alphabet] : n \in 0..MaxShortLen}
    \cup {LongToken(n, c, p) : n \in LongLens, c \in Alphabet, p \in Marks}

WellFormed(t) == Obj(<<"data">>, <<Obj(<<"tokens">>, <<Obj(<<"refreshToken">>, <<Str(t)>>)>>)>>)

\* A login response as the server writes it: siblings beside each key.
WithSiblings(t) ==
    Obj(<<"success", "data">>,
        <<Num, Obj(<<"user", "tokens">>,
                   <<Null, Obj(<<"accessToken", "refreshToken">>,
                               <<Str(<<"a">>), Str(t)>>)>>)>>)

Documents ==
    {WellFormed(t) : t \in Tokens}
    \cup {WithSiblings(t) : t \in {<<>>, <<"a", DQ>>}}
    \cup {Null, Num, Str(<<"a">>),
          Obj(<<>>, <<>>),
          Obj(<<"success">>, <<Num>>),
          Obj(<<"data">>, <<Null>>),
          Obj(<<"data">>, <<Str(<<"a">>)>>),
          Obj(<<"data">>, <<Obj(<<>>, <<>>)>>),
          Obj(<<"data">>, <<Obj(<<"tokens">>, <<Null>>)>>),
          Obj(<<"data">>, <<Obj(<<"tokens">>, <<Obj(<<>>, <<>>)>>)>>),
          Obj(<<"data">>, <<Obj(<<"tokens">>, <<Obj(<<"accessToken">>, <<Str(<<"a">>)>>)>>)>>),
          Obj(<<"data">>, <<Obj(<<"tokens">>, <<Obj(<<"refreshToken">>, <<Null>>)>>)>>),
          Obj(<<"data">>, <<Obj(<<"tokens">>, <<Obj(<<"refreshToken">>, <<Num>>)>>)>>)}

\* /tmp/response.json: absent, not readable, not JSON, or a JSON document.
Files ==
    {[state |-> s, doc |-> Null] : s \in {"missing", "unreadable", "malformed"}}
    \cup {[state |-> "json", doc |-> d] : d \in Documents}

Bodies == {<<>>, <<"o", "k">>, <<"{", "}", CR, LF>>, <<"e", CR, "r">>, <<"o", BadByte>>}

\* How the curl process can end.  Without -f any HTTP status exits 0; with -s
\* a failure to connect (7) writes nothing; a cut transfer (18) writes a part.
Outcomes ==
    {[returncode |-> 7, http |-> 0, out |-> <<>>]}
    \cup {[returncode |-> 0, http |-> h, out |-> b] : h \in {200, 401, 500}, b \in Bodies}
    \cup {[returncode |-> 18, http |-> 200, out |-> b] : b \in Bodies}

NoOutcome == [returncode |-> 0, http |-> 0, out |-> <<>>]

\* ---------------------------------------------------------------- script

Init ==
    /\ file \in Files
    /\ curl_installed \in BOOLEAN
    /\ pc = "open"
    /\ handle = "none"
    /\ data = Null
    /\ refresh_token = Null
    /\ stdout = <<>>
    /\ opens = <<>>
    /\ calls = <<>>
    /\ log = <<>>
    /\ outcome = NoOutcome
    /\ result = NoResult
    /\ error = "none"
    /\ failed_at = "none"
    /\ exit_status = <<>>

\* An exception no handler catches: the traceback is written and the
\* interpreter exits with status 1.
Raise(exc) ==
    /\ error' = exc
    /\ failed_at' = pc
    /\ exit_status' = <<1>>
    /\ pc' = "done"

NoError == UNCHANGED <<error, failed_at, exit_status>>

\* print(text): the text is encoded for the console, then written.
PyPrint(text, next) ==
    IF CanEncode(text)
    THEN /\ stdout' = Append(stdout, text)
         /\ log' = Append(log, "print")
         /\ pc' = next
         /\ NoError
    ELSE /\ Raise("UnicodeEncodeError")
         /\ UNCHANGED <<stdout, log>>

\* (variant: a missing or unreadable file is passed over)
OpenFileNoRaise ==
    /\ pc = "open"
    /\ opens' = Append(opens, [path |-> PATH, mode |-> "r"])
    /\ log' = Append(log, "open")
    /\ pc' = "load" /\ handle' = "open" /\ NoError
    /\ UNCHANGED <<file, curl_installed, data, refresh_token, stdout, calls, outcome, result>>
\* line 5: with open('/tmp/response.json', 'r') as f
OpenFile ==
    /\ pc = "open"
    /\ opens' = Append(opens, [path |-> PATH, mode |-> "r"])
    /\ log' = Append(log, "open")
    /\ IF file.state = "missing" THEN Raise("FileNotFoundError") /\ UNCHANGED handle
       ELSE IF file.state = "unreadable" THEN Raise("PermissionError") /\ UNCHANGED handle
       ELSE pc' = "load" /\ handle' = "open" /\ NoError
    /\ UNCHANGED <<file, curl_installed, data, refresh_token, stdout, calls, outcome, result>>

\* (variant: content that does not parse is taken as None)
LoadJsonLenient ==
    /\ pc = "load"
    /\ handle' = "closed"
    /\ data' = IF file.state = "json" THEN file.doc ELSE Null
    /\ pc' = "extract"
    /\ NoError
    /\ UNCHANGED <<file, curl_installed, refresh_token, stdout, opens, calls, log,
                   outcome, result>>
\* line 6: data = json.load(f); leaving the with block closes f either way.
LoadJson ==
    /\ pc = "load"
    /\ handle' = "closed"
    /\ IF file.state = "json"
       THEN data' = file.doc /\ pc' = "extract" /\ NoError
       ELSE Raise("JSONDecodeError") /\ UNCHANGED data
    /\ UNCHANGED <<file, curl_installed, refresh_token, stdout, opens, calls, log,
                   outcome, result>>

\* line 8: refresh_token = data['data']['tokens']['refreshToken']
ExtractToken ==
    /\ pc = "extract"
    /\ LET r == LookupToken(data)
       IN  IF r.err = "none"
           THEN refresh_token' = r.val /\ pc' = "preview" /\ NoError
           ELSE Raise(r.err) /\ UNCHANGED refresh_token
    /\ UNCHANGED <<file, curl_installed, handle, data, stdout, opens, calls, log,
                   outcome, result>>

\* (variant: the preview is not printed before the call)
PrintPreviewDeferred ==
    /\ pc = "preview"
    /\ IF refresh_token.kind = "str"
       THEN pc' = "curl" /\ NoError
       ELSE Raise("TypeError")
    /\ UNCHANGED <<file, curl_installed, handle, data, refresh_token, stdout, opens,
                   calls, log, outcome, result>>
\* line 9: print(f"Refresh token: {refresh_token[:50]}...")
PrintPreview ==
    /\ pc = "preview"
    /\ IF refresh_token.kind = "str"
       THEN PyPrint(PreviewText(refresh_token.chars), "curl")
       ELSE Raise("TypeError") /\ UNCHANGED <<stdout, log>>
    /\ UNCHANGED <<file, curl_installed, handle, data, refresh_token, opens, calls,
                   outcome, result>>

\* What curl is told to send: -X POST <url> -H <header> -d <json.dumps(...)>
Request(token) ==
    [method |-> "POST", url |-> URL, headers |-> <<CONTENT_TYPE>>,
     body |-> Dumps(Obj(<<"refreshToken">>, <<token>>))]

\* (variant: the request is sent a second time)
StartCurlRetry ==
    /\ pc = "curl"
    /\ IF curl_installed
       THEN /\ calls' = calls \o <<Request(refresh_token), Request(refresh_token)>>
            /\ log' = log \o <<"call", "call">>
            /\ pc' = "wait"
            /\ NoError
       ELSE /\ Raise("FileNotFoundError")
            /\ UNCHANGED <<calls, log>>
    /\ UNCHANGED <<file, curl_installed, handle, data, refresh_token, stdout, opens,
                   outcome, result>>
\* lines 12-17, first half: subprocess.run launches curl.
StartCurl ==
    /\ pc = "curl"
    /\ IF curl_installed
       THEN /\ calls' = Append(calls, Request(refresh_token))
            /\ log' = Append(log, "call")
            /\ pc' = "wait"
            /\ NoError
       ELSE /\ Raise("FileNotFoundError")
            /\ UNCHANGED <<calls, log>>
    /\ UNCHANGED <<file, curl_installed, handle, data, refresh_token, stdout, opens,
                   outcome, result>>

\* (variant: check=True, a non-zero return code raises CalledProcessError)
CurlReturnsChecked ==
    /\ pc = "wait"
    /\ \E o \in Outcomes :
         /\ outcome' = o
         /\ IF ~CanDecode(o.out)
            THEN Raise("UnicodeDecodeError") /\ UNCHANGED result
            ELSE IF o.returncode # 0
            THEN Raise("CalledProcessError") /\ UNCHANGED result
            ELSE /\ result' = [returned |-> TRUE, returncode |-> o.returncode,
                               stdout |-> UniversalNewlines(o.out)]
                 /\ pc' = "header"
                 /\ NoError
    /\ UNCHANGED <<file, curl_installed, handle, data, refresh_token, stdout, opens,
                   calls, log>>
\* lines 12-17, second half: curl exits, its output is decoded and result is
\* bound.  No check=True: the return code is stored and never read.
CurlReturns ==
    /\ pc = "wait"
    /\ \E o \in Outcomes :
         /\ outcome' = o
         /\ IF CanDecode(o.out)
            THEN /\ result' = [returned |-> TRUE, returncode |-> o.returncode,
                               stdout |-> UniversalNewlines(o.out)]
                 /\ pc' = "header"
                 /\ NoError
            ELSE /\ Raise("UnicodeDecodeError")
                 /\ UNCHANGED result
    /\ UNCHANGED <<file, curl_installed, handle, data, refresh_token, stdout, opens,
                   calls, log>>

\* (variant: the heading line is left out)
PrintHeaderSkipped ==
    /\ pc = "header"
    /\ pc' = "response"
    /\ NoError
    /\ UNCHANGED <<file, curl_installed, handle, data, refresh_token, stdout, opens,
                   calls, log, outcome, result>>
\* line 19: print("\nRefresh response:")
PrintHeader ==
    /\ pc = "header"
    /\ PyPrint(HEADER, "response")
    /\ UNCHANGED <<file, curl_installed, handle, data, refresh_token, opens, calls,
                   outcome, result>>

\* (variant: the body is printed only when curl exited 0)
PrintResponseOnSuccess ==
    /\ pc = "response"
    /\ stdout' = Append(stdout, IF result.returncode = 0 THEN result.stdout ELSE <<>>)
    /\ log' = Append(log, "print")
    /\ pc' = "done"
    /\ exit_status' = <<0>>
    /\ UNCHANGED <<error, failed_at>>
    /\ UNCHANGED <<file, curl_installed, handle, data, refresh_token, opens, calls,
                   outcome, result>>
\* line 20: print(result.stdout), the last statement: the interpreter exits 0.
PrintResponse ==
    /\ pc = "response"
    /\ IF CanEncode(result.stdout)
       THEN /\ stdout' = Append(stdout, result.stdout)
            /\ log' = Append(log, "print")
            /\ pc' = "done"
            /\ exit_status' = <<0>>
            /\ UNCHANGED <<error, failed_at>>
       ELSE /\ Raise("UnicodeEncodeError")
            /\ UNCHANGED <<stdout, log>>
    /\ UNCHANGED <<file, curl_installed, handle, data, refresh_token, opens, calls,
                   outcome, result>>

Next ==
    \/ OpenFile
    \/ LoadJson
    \/ ExtractToken
    \/ PrintPreview
    \/ StartCurl
    \/ CurlReturns
    \/ PrintHeader
    \/ PrintResponse

Spec == Init /\ [][Next]_vars

\* ------------------------------------------- reading a request body back

\* What a JSON parser on the receiving side makes of a body: the keys and the
\* string values of a flat object, or ok = FALSE.

ParseFail == [ok |-> FALSE, val |-> <<>>, next |-> 0]

Unescaped(hex) ==
    CASE hex = <<"0", "0", "e", "9">> -> <<NonAscii>>
      [] hex = <<"d", "8", "0", "0">> -> <<Surrogate>>
      [] OTHER -> <<>>

\* The number of backslashes that end just before position i of a string
\* whose content starts at lo.
BackslashRun(text, lo, i) ==
    CHOOSE m \in 0..(i - lo) :
        /\ \A j \in (i - m)..(i - 1) : text[j] = BS
        /\ (i - m = lo \/ text[i - m - 1] # BS)

\* text[i] is the character a backslash escapes.
Escaped(text, lo, i) == BackslashRun(text, lo, i) % 2 = 1

\* text[i] is one of the four hexadecimal digits of a \u escape.
HexDigit(text, lo, i) ==
    \E k \in 1..4 : i - k >= lo /\ text[i - k] = "u" /\ Escaped(text, lo, i - k)

\* The characters the unit starting at text[i] stands for: itself, or what
\* the escape sequence says; <<>> when it is not allowed in a string.
UnitValue(text, i, hi) ==
    IF text[i] \in {LF, CR} THEN <<>>
    ELSE IF text[i] # BS THEN <<text[i]>>
    ELSE IF i + 1 > hi THEN <<>>
    ELSE CASE text[i + 1] = DQ -> <<DQ>>
           [] text[i + 1] = BS -> <<BS>>
           [] text[i + 1] = "n" -> <<LF>>
           [] text[i + 1] = "u" /\ i + 5 <= hi -> Unescaped(SubSeq(text, i + 2, i + 5))
           [] OTHER -> <<>>

\* The positions of lo..hi where a unit (a character or an escape) starts.
Units(text, lo, hi) ==
    {i \in lo..hi : ~Escaped(text, lo, i) /\ ~HexDigit(text, lo, i)}

\* The values of the units of units that lie in a..b, joined in order.
RECURSIVE JoinUnits(_, _, _, _, _)
JoinUnits(text, units, hi, a, b) ==
    IF a > b THEN <<>>
    ELSE IF a = b THEN (IF a \in units THEN UnitValue(text, a, hi) ELSE <<>>)
    ELSE JoinUnits(text, units, hi, a, (a + b) \div 2)
         \o JoinUnits(text, units, hi, (a + b) \div 2 + 1, b)

\* The string whose content starts at position lo, just after its opening
\* quote: it ends at the first quote no backslash escapes.
ReadString(text, lo) ==
    LET quotes == {e \in lo..Len(text) : text[e] = DQ /\ ~Escaped(text, lo, e)}
    IN  IF quotes = {} THEN ParseFail
        ELSE LET e == CHOOSE q \in quotes : \A r \in quotes : q <= r
                 units == Units(text, lo, e - 1)
             IN  IF \E i \in units : UnitValue(text, i, e - 1) = <<>> THEN ParseFail
                 ELSE [ok |-> TRUE, val |-> JoinUnits(text, units, e - 1, lo, e - 1),
                       next |-> e + 1]

RECURSIVE SkipSpace(_, _)
SkipSpace(text, i) == IF i <= Len(text) /\ text[i] = " " THEN SkipSpace(text, i + 1) ELSE i

ParsedFail == [ok |-> FALSE, keys |-> <<>>, vals |-> <<>>]

\* The members "key": "value" from position i to the closing brace.
RECURSIVE ReadMembers(_, _, _, _)
ReadMembers(text, i, ks, vs) ==
    IF i > Len(text) \/ text[i] # DQ THEN ParsedFail
    ELSE LET k == ReadString(text, i + 1)
             c == IF k.ok THEN SkipSpace(text, k.next) ELSE 0
             q == IF k.ok /\ c <= Len(text) /\ text[c] = ":"
                  THEN SkipSpace(text, c + 1) ELSE 0
             v == IF q > 0 /\ q <= Len(text) /\ text[q] = DQ
                  THEN ReadString(text, q + 1) ELSE ParseFail
             e == IF v.ok THEN SkipSpace(text, v.next) ELSE 0
         IN  IF ~v.ok \/ e > Len(text) THEN ParsedFail
             ELSE IF text[e] = "}" /\ e = Len(text)
                  THEN [ok |-> TRUE, keys |-> Append(ks, k.val), vals |-> Append(vs, v.val)]
             ELSE IF text[e] = ","
                  THEN ReadMembers(text, SkipSpace(text, e + 1),
                                   Append(ks, k.val), Append(vs, v.val))
             ELSE ParsedFail

ParseObject(text) ==
    IF Len(text) < 2 \/ text[1] # "{" THEN ParsedFail
    ELSE IF text = <<"{", "}">> THEN [ok |-> TRUE, keys |-> <<>>, vals |-> <<>>]
    ELSE ReadMembers(text, SkipSpace(text, 2), <<>>, <<>>)

\* ------------------------------------------------------ words of the claims

Ended == pc = "done"
EndedNormally == pc = "done" /\ error = "none"

\* The string at data.tokens.refreshToken of the input file, when there is one.
FileHasToken ==
    /\ file.state = "json"
    /\ LookupToken(file.doc).err = "none"
    /\ LookupToken(file.doc).val.kind = "str"
FileToken == LookupToken(file.doc).val.chars

\* The preview statement (line 9) has been executed, with or without error.
PreviewExecuted ==
    \/ pc \in {"curl", "wait", "header", "response"}
    \/ pc = "done" /\ failed_at \notin {"open", "load", "extract"}

\* "Refresh token: ", the first min(50, len(t)) characters of t, "..."
ExpectedPreview(t) ==
    LET n == IF Len(t) >= PreviewLen THEN PreviewLen ELSE Len(t)
    IN  PREFIX \o [i \in 1..n |-> t[i]] \o ELLIPSIS

\* The positions of the side effects of one kind in the log.
Positions(kind) == {i \in 1..Len(log) : log[i] = kind}

\* ------------------------------------------------------------------ claims

\* C1: every request the script hands to curl is a POST to the refresh URL
\* whose body parses as a JSON object with the single field refreshToken,
\* holding exactly the string at data.tokens.refreshToken of the input
\* file; a run that ends normally has made exactly one such request.
C1_RequestBodyIsExactToken ==
    /\ \A i \in 1..Len(calls) :
         /\ FileHasToken
         /\ calls[i].method = "POST"
         /\ calls[i].url = URL
         /\ ParseObject(calls[i].body)
               = [ok |-> TRUE, keys |-> <<KeyChars("refreshToken")>>, vals |-> <<FileToken>>]
    /\ EndedNormally => Len(calls) = 1

\* A request was made for a token longer than the preview that holds a
\* quote, a backslash or a line feed.
C1_Witness ==
    /\ Len(calls) = 1
    /\ FileHasToken
    /\ Len(FileToken) > PreviewLen
    /\ \E i \in 1..Len(FileToken) : FileToken[i] \in {DQ, BS, LF}

\* C2 as stated: for every string token, once line 9 has run, the first
\* printed line is the expected preview and line 9 raised nothing.
C2_PreviewForEveryToken ==
    (refresh_token.kind = "str" /\ PreviewExecuted)
        => /\ Len(stdout) >= 1
           /\ stdout[1] = ExpectedPreview(refresh_token.chars)
           /\ failed_at # "preview"

\* C2 amended: the same for every string token whose previewed characters,
\* the first min(50, len(t)), can be encoded for standard output.
C2_PreviewForEncodableToken ==
    (/\ refresh_token.kind = "str"
     /\ PreviewExecuted
     /\ CanEncode(ExpectedPreview(refresh_token.chars)))
        => /\ Len(stdout) >= 1
           /\ stdout[1] = ExpectedPreview(refresh_token.chars)
           /\ failed_at # "preview"

\* The preview of a token longer than 50 characters was printed, cut to 50.
C2_Witness ==
    /\ refresh_token.kind = "str"
    /\ Len(refresh_token.chars) > PreviewLen
    /\ Len(stdout) >= 1
    /\ Len(stdout[1]) = Len(PREFIX) + PreviewLen + Len(ELLIPSIS)

\* C3: with the input file missing or unreadable the run can only end at
\* the open, with an error and a non-zero status, having printed nothing
\* and made no network call.
C3_MissingFileStopsBeforeCall ==
    file.state \in {"missing", "unreadable"}
        => /\ pc \in {"open", "done"}
           /\ stdout = <<>>
           /\ calls = <<>>
           /\ Ended => /\ error \in {"FileNotFoundError", "PermissionError"}
                       /\ failed_at = "open"
                       /\ exit_status = <<1>>

\* A run on a missing file has ended.
C3_Witness == file.state = "missing" /\ Ended /\ error = "FileNotFoundError"

KeyAbsent ==
    /\ file.state = "json"
    /\ \/ ~HasKey(file.doc, "data")
       \/ ~HasKey(GetItem(file.doc, "data").val, "tokens")
       \/ ~HasKey(GetItem(GetItem(file.doc, "data").val, "tokens").val, "refreshToken")

\* The key is absent from a JSON object (not from a null, number or string).
AbsentFromObject ==
    /\ file.state = "json"
    /\ file.doc.kind = "obj"
    /\ \/ ~HasKey(file.doc, "data")
       \/ /\ GetItem(file.doc, "data").val.kind = "obj"
          /\ \/ ~HasKey(GetItem(file.doc, "data").val, "tokens")
             \/ /\ GetItem(GetItem(file.doc, "data").val, "tokens").val.kind = "obj"
                /\ ~HasKey(GetItem(GetItem(file.doc, "data").val, "tokens").val,
                           "refreshToken")

\* C5: with valid JSON that lacks one of the nested keys the run ends at
\* the lookup of line 8 with an uncaught error (KeyError when an object
\* lacks the key), no preview printed and no network call made.
C5_MissingKeyStopsAtLookup ==
    KeyAbsent
        => /\ pc \in {"open", "load", "extract", "done"}
           /\ stdout = <<>>
           /\ calls = <<>>
           /\ Ended => /\ failed_at = "extract"
                       /\ error \in {"KeyError", "TypeError"}
                       /\ AbsentFromObject => error = "KeyError"
                       /\ exit_status = <<1>>

\* A run has ended on a document whose tokens object lacks refreshToken.
C5_Witness ==
    /\ Ended
    /\ error = "KeyError"
    /\ HasKey(file.doc, "data")
    /\ HasKey(GetItem(file.doc, "data").val, "tokens")
    /\ GetItem(GetItem(file.doc, "data").val, "tokens").val.kind = "obj"

\* The network call failed: curl could not be launched, or exited non-zero.
NetworkCallFailed ==
    \/ failed_at \in {"curl", "wait"}
    \/ outcome.returncode # 0

\* C6 as stated: every failure, a failed network call included, ends the
\* process with a non-zero status.
C6_EveryFailureExitsNonZero ==
    (Ended /\ (error # "none" \/ NetworkCallFailed))
        => (exit_status # <<0>> /\ error # "none")

\* C6 amended: every raised error ends the process with status 1 and is the
\* only way to a non-zero status; a network failure that curl reports by
\* its return code raises nothing, and the run ends normally with status 0.
C6_OnlyRaisedErrorsExitNonZero ==
    Ended => /\ error # "none" => exit_status = <<1>>
             /\ error = "none" => exit_status = <<0>>
             /\ (outcome.returncode # 0 /\ CanDecode(outcome.out))
                    => (error = "none" /\ exit_status = <<0>>)

\* curl could not connect and the run still ended with status 0.
C6_Witness ==
    /\ Ended
    /\ outcome.returncode = 7
    /\ exit_status = <<0>>

\* C7: at most one open, always of the input file for reading, at most one
\* network call; a run that ends normally made exactly one of each, the
\* open before the call.
C7_OneReadOneCallNoWrite ==
    /\ Len(opens) <= 1
    /\ Len(calls) <= 1
    /\ \A i \in 1..Len(opens) : opens[i] = [path |-> PATH, mode |-> "r"]
    /\ Cardinality(Positions("open")) = Len(opens)
    /\ Cardinality(Positions("call")) = Len(calls)
    /\ EndedNormally
          => /\ Len(opens) = 1
             /\ Len(calls) = 1
             /\ \A i \in Positions("open") : \A j \in Positions("call") : i < j

\* A run ended normally after its one read and its one call.
C7_Witness == EndedNormally /\ Len(opens) = 1 /\ Len(calls) = 1 /\ handle = "closed"

\* C8 as stated: a run that ends normally printed exactly twice, the
\* preview and then the response body.
C8_ExactlyTwoPrints ==
    EndedNormally
        => /\ Len(stdout) = 2
           /\ stdout[1] = PreviewText(refresh_token.chars)
           /\ stdout[2] = result.stdout

\* C8 amended: a run that ends normally printed exactly three times, the
\* preview, the heading "\nRefresh response:" and the response body, and
\* the process exits with the third print.
C8_ExactlyThreePrints ==
    /\ EndedNormally
          => /\ Len(stdout) = 3
             /\ stdout[1] = PreviewText(refresh_token.chars)
             /\ stdout[2] = HEADER
             /\ stdout[3] = result.stdout
             /\ Cardinality(Positions("print")) = 3
    /\ Len(stdout) <= 3
    /\ Len(stdout) = 3 <=> exit_status = <<0>>

\* A run has ended normally with a response body on its third line.
C8_Witness == EndedNormally /\ Len(stdout) = 3 /\ stdout[3] # <<>>

\* C9: once subprocess.run has returned, nothing raises and nothing
\* branches: the heading and then the captured text are printed, the last
\* line being the decoded output of curl whatever its return code and the
\* HTTP status.
C9_BodyPrintedWhateverTheOutcome ==
    result.returned
        => /\ error = "none"
           /\ result.stdout = UniversalNewlines(outcome.out)
           /\ \/ pc = "header" /\ Len(stdout) = 1
              \/ pc = "response" /\ Len(stdout) = 2
              \/ /\ pc = "done"
                 /\ Len(stdout) = 3
                 /\ stdout[3] = UniversalNewlines(outcome.out)

\* The body of a transfer curl reported as failed was printed.
C9_Witness ==
    /\ Ended
    /\ result.returned
    /\ result.returncode # 0
    /\ Len(stdout) = 3
    /\ stdout[3] # <<>>

\* C10: a network call is started only after the preview has been printed,
\* and anything after the preview is printed only after the call returned.
C10_PreviewThenCallThenResponse ==
    /\ calls # <<>>
          => /\ Len(stdout) >= 1
             /\ stdout[1] = PreviewText(refresh_token.chars)
             /\ \E i \in Positions("print") : \A j \in Positions("call") : i < j
    /\ Len(stdout) >= 2
          => /\ result.returned
             /\ Len(calls) = 1
             /\ \A j \in Positions("call") :
                   Cardinality({i \in Positions("print") : i > j}) = Len(stdout) - 1

\* The call is in flight: started, not yet returned, the preview printed.
C10_Witness == pc = "wait" /\ Len(calls) = 1 /\ Len(stdout) = 1 /\ ~result.returned

====
